---- MODULE Spec2Model ----
(***************************************************************************)
(* AeroFit analytics: the Streamlit dashboard (src/dashboard.py) and the   *)
(* batch report (src/aerofit_analysis.py) as a state machine.              *)
(*                                                                         *)
(* The server process serves browser sessions, one after the other under  *)
(* Spec and SpecCsv, side by side under SpecViews; the two st.cache_data   *)
(* stores belong to the process and outlive a session.  A session is a     *)
(* sequence of render cycles.  Each cycle runs the script top to bottom:   *)
(* the plotly theme, load_data (cached), compute_statistics (cached), the  *)
(* sidebar metrics, the body of the selected section, the footer.  An      *)
(* uncaught exception ends the cycle where it is raised.                   *)
(*                                                                         *)
(* Numbers.  A value of a numeric column is an integer count of 1/Milli    *)
(* (three decimals).  A float the code rounds with .round(2) is a Num      *)
(* record [nan, v] with v in hundredths.  A percentage the code computes   *)
(* by a float division is the exact fraction [num, den]; the rounding      *)
(* error of the float division is not represented.                         *)
(***************************************************************************)
EXTENDS Integers, Sequences, FiniteSets

VARIABLES
    file,        \* the CSV on disk: [cols, bad, rows]
    loadCache,   \* st.cache_data store of load_data: <<>> or <<df>>
    statsCache,  \* st.cache_data store of compute_statistics: set of [key, val]
    df,          \* module-level df of the running cycle
    stats,       \* module-level stats of the running cycle
    section,     \* value of the sidebar selectbox
    pc,          \* position of the script in the running cycle
    err,         \* the uncaught exception of the cycle, "" when none
    errAt,       \* the script position that raised it
    shown,       \* what the cycle has rendered so far
    reads,       \* number of times pd.read_csv ran in the session
    cycles,      \* number of render cycles started in the session
    session,     \* number of the browser session being served, from 1
    report,      \* output of the batch script, NoReport before it ran
    templates,   \* plotly's process-wide registry pio.templates
    views,       \* concurrent sessions: the script state of each view
    ownCache     \* TRUE when every view holds cache stores of its own

viewVars == <<views, ownCache>>

vars == <<file, loadCache, statsCache, df, stats, section, pc, err, errAt,
          shown, reads, cycles, session, report, templates, views, ownCache>>

----------------------------------------------------------------------------
(* Bounds of the model *)

MaxRecords == 3
MaxCycles == 2
MaxSessions == 2
MaxViews == 2

----------------------------------------------------------------------------
(* The schema of the CSV *)

Milli == 1000
Cent == 100
Percent == 100

Products == {"KP281", "KP481", "KP781"}
Genders == {"Female", "Male"}
MaritalStatuses == {"Single", "Partnered"}
Columns == {"Product", "Age", "Gender", "Education", "MaritalStatus",
            "Usage", "Fitness", "Income", "Miles"}
numeric_cols == {"Age", "Education", "Usage", "Fitness", "Income", "Miles"}

sections == <<"Product Overview", "Customer Segments",
              "Target Audience Analysis", "Usage Analysis",
              "Financial Insights", "Recommendations">>

\* Numeric profiles a purchase record is drawn from.  Income and Miles carry
\* three decimals, the other columns are whole numbers.
ProfileSeq ==
    << [Age |-> 18 * Milli, Education |-> 14 * Milli, Usage |-> 2 * Milli,
        Fitness |-> 3 * Milli, Income |-> 2 * Milli, Miles |-> Milli + 6],
       [Age |-> 30 * Milli, Education |-> 16 * Milli, Usage |-> 3 * Milli,
        Fitness |-> 5 * Milli, Income |-> 3 * Milli + 4,
        Miles |-> 2 * Milli + 500] >>

DemographicSeq ==
    << [Gender |-> "Female", MaritalStatus |-> "Single"],
       [Gender |-> "Male", MaritalStatus |-> "Partnered"] >>

ProductSeq == <<"KP281", "KP481", "KP781">>

PurchaseRecord(p, d, n) ==
    [Product |-> p, Age |-> n.Age, Gender |-> d.Gender,
     Education |-> n.Education, MaritalStatus |-> d.MaritalStatus,
     Usage |-> n.Usage, Fitness |-> n.Fitness, Income |-> n.Income,
     Miles |-> n.Miles]

NumCustomers == Len(ProductSeq) * Len(DemographicSeq) * Len(ProfileSeq)

\* The i-th record of the universe the files are filled from.
Customer(i) ==
    PurchaseRecord(
        ProductSeq[((i - 1) % Len(ProductSeq)) + 1],
        DemographicSeq[(((i - 1) \div Len(ProductSeq)) % Len(DemographicSeq)) + 1],
        ProfileSeq[((i - 1) \div (Len(ProductSeq) * Len(DemographicSeq))) + 1])

\* Row lists of 1..MaxRecords records.  No summary depends on the order of
\* the rows, so each multiset of records is listed once, in universe order.
RowLists ==
    UNION { { [i \in 1..k |-> Customer(ix[i])] :
                ix \in { s \in [1..k -> 1..NumCustomers] :
                           \A i \in 1..(k - 1) : s[i] <= s[i + 1] } } :
            k \in 1..MaxRecords }

\* A CSV as read_csv sees it: the header, the numeric columns that hold an
\* unparseable token, the rows.
WellFormed(rows) == [cols |-> Columns, bad |-> {}, rows |-> rows]

----------------------------------------------------------------------------
(* Floats *)

NaN == [nan |-> TRUE, v |-> 0]
Num(x) == [nan |-> FALSE, v |-> x]

\* num / den rounded to the nearest integer, ties to even (numpy's rint).
RoundHalfEven(num, den) ==
    LET q == num \div den
        r == num % den
    IN  IF 2 * r < den THEN q
        ELSE IF 2 * r > den THEN q + 1
        ELSE IF q % 2 = 0 THEN q ELSE q + 1

\* .round(2) of the float num / den, in hundredths.
round2(num, den) == Num(RoundHalfEven(Cent * num, den))

RECURSIVE SeqSum(_)
SeqSum(xs) == IF xs = <<>> THEN 0 ELSE Head(xs) + SeqSum(Tail(xs))

SeqSumSq(xs) == SeqSum([i \in 1..Len(xs) |-> xs[i] * xs[i]])

SeqMin(xs) == CHOOSE x \in { xs[i] : i \in 1..Len(xs) } :
                  \A i \in 1..Len(xs) : x <= xs[i]
SeqMax(xs) == CHOOSE x \in { xs[i] : i \in 1..Len(xs) } :
                  \A i \in 1..Len(xs) : x >= xs[i]

\* The k-th smallest element of xs (k from 1).
KthSmallest(xs, k) ==
    CHOOSE x \in { xs[i] : i \in 1..Len(xs) } :
        /\ Cardinality({ i \in 1..Len(xs) : xs[i] < x }) < k
        /\ Cardinality({ i \in 1..Len(xs) : xs[i] <= x }) >= k

\* Variant of agg_mean: 'sum' in place of 'mean'.
agg_mean_sum(xs) == round2(SeqSum(xs), Milli)

\* Series.mean / median / std (ddof = 1) of a non-empty group: the exact
\* statistic, rounded to 2 decimals.
agg_mean(xs) == round2(SeqSum(xs), Len(xs) * Milli)

\* Variant of agg_median: the lower of the two middle values of a group of
\* even size.
agg_median_low(xs) == round2(KthSmallest(xs, (Len(xs) + 1) \div 2), Milli)

agg_median(xs) ==
    LET n == Len(xs)
    IN  IF n % 2 = 1
        THEN round2(KthSmallest(xs, (n + 1) \div 2), Milli)
        ELSE round2(KthSmallest(xs, n \div 2) + KthSmallest(xs, (n \div 2) + 1),
                    2 * Milli)

\* 100 * sqrt(V / (n (n - 1) Milli^2)) rounded to an integer h, where
\* V = n * sum(x^2) - sum(x)^2:  (2h - 1)^2 D <= 4 V < (2h + 1)^2 D  with
\* D = n (n - 1) (Milli / Cent)^2.
agg_std_defined(xs) ==
    LET n == Len(xs)
        V == n * SeqSumSq(xs) - SeqSum(xs) * SeqSum(xs)
        D == n * (n - 1) * (Milli \div Cent) * (Milli \div Cent)
        hMax == ((Cent * (SeqMax(xs) - SeqMin(xs))) \div Milli) + 1
        h == CHOOSE k \in 0..hMax :
                 /\ (2 * k + 1) * (2 * k + 1) * D > 4 * V
                 /\ k = 0 \/ (2 * k - 1) * (2 * k - 1) * D <= 4 * V
    IN  IF h > 0 /\ (2 * h - 1) * (2 * h - 1) * D = 4 * V /\ h % 2 = 1
        THEN Num(h - 1) ELSE Num(h)

agg_std(xs) == IF Len(xs) < 2 THEN NaN ELSE agg_std_defined(xs)

----------------------------------------------------------------------------
(* Data frames and tables *)

None == [none |-> TRUE]

\* pd.read_csv: the header gives the columns, a numeric column with an
\* unparseable token gets dtype object, every row keeps the header's fields.
\* It raises for none of these files.
read_csv(f) ==
    [cols |-> f.cols,
     object |-> (f.cols \ numeric_cols) \cup (f.bad \cap f.cols),
     rows |-> [i \in 1..Len(f.rows) |-> [c \in f.cols |-> f.rows[i][c]]]]

Rows(d) == 1..Len(d.rows)
Values(d, c) == { d.rows[i][c] : i \in Rows(d) }

RECURSIVE SetSum(_, _)
SetSum(f, S) ==
    IF S = {} THEN 0
    ELSE LET x == CHOOSE y \in S : TRUE IN f[x] + SetSum(f, S \ {x})

\* The values of column c in the rows of product p, in row order.
GroupValues(d, p, c) ==
    LET g == SelectSeq(d.rows, LAMBDA r : r.Product = p)
    IN  [i \in 1..Len(g) |-> g[i][c]]

\* pd.crosstab(df[rc], df[cc]): one row per value of rc and one column per
\* value of cc that occurs, each cell a count.
crosstab(d, rc, cc) ==
    [index |-> Values(d, rc), columns |-> Values(d, cc),
     cell |-> [k \in Values(d, rc) \X Values(d, cc) |->
                 Cardinality({ i \in Rows(d) :
                     d.rows[i][rc] = k[1] /\ d.rows[i][cc] = k[2] })]]

\* table.sum(axis=1): the total of each row of a table of counts.
row_sum(t) ==
    [r \in t.index |-> SetSum([c \in t.columns |-> t.cell[<<r, c>>]], t.columns)]

\* Variant of div_rows_pct: normalize='all', each cell over the grand total.
div_total_pct(t) ==
    [index |-> t.index, columns |-> t.columns,
     cell |-> [k \in t.index \X t.columns |->
                 [num |-> Percent * t.cell[k],
                  den |-> SetSum(row_sum(t), t.index)]]]

\* normalize='index' followed by * 100, and usage_fitness.div(...) * 100:
\* each cell divided by the total of its row, times 100.
div_rows_pct(t) ==
    [index |-> t.index, columns |-> t.columns,
     cell |-> [k \in t.index \X t.columns |->
                 [num |-> Percent * t.cell[k], den |-> row_sum(t)[k[1]]]]]

\* pd.crosstab(df['Product'], df[c], normalize='index') * 100
crosstab_pct(d, c) == div_rows_pct(crosstab(d, "Product", c))

\* df.groupby('Product')[c].agg(['mean', 'median', 'std']).round(2): one row
\* per product that occurs.
group_stats(d, c) ==
    [p \in Values(d, "Product") |->
        [mean |-> agg_mean(GroupValues(d, p, c)),
         median |-> agg_median(GroupValues(d, p, c)),
         std |-> agg_std(GroupValues(d, p, c))]]

\* Variant of market_share: value_counts() without normalize=True.
market_share_counts(d) ==
    [p \in Values(d, "Product") |->
        [num |-> Percent * Cardinality({ i \in Rows(d) : d.rows[i].Product = p }),
         den |-> 1]]

\* df['Product'].value_counts(normalize=True) * 100
market_share(d) ==
    LET n == [p \in Values(d, "Product") |->
                 Cardinality({ i \in Rows(d) : d.rows[i].Product = p })]
    IN  [p \in Values(d, "Product") |->
            [num |-> Percent * n[p], den |-> SetSum(n, Values(d, "Product"))]]

\* Variant of usage_fitness: a row for every Usage value with every
\* product, as a pivot over the full grid has.
usage_fitness_grid(d) ==
    LET keys == Values(d, "Usage") \X Values(d, "Product")
    IN  [index |-> keys, columns |-> Values(d, "Fitness"),
         cell |-> [k \in keys \X Values(d, "Fitness") |->
                     Cardinality({ i \in Rows(d) :
                         /\ d.rows[i].Usage = k[1][1]
                         /\ d.rows[i].Product = k[1][2]
                         /\ d.rows[i].Fitness = k[2] })]]

\* pd.crosstab([df['Usage'], df['Product']], df['Fitness']) with its rows
\* divided by their totals, * 100: one row per (Usage, Product) that occurs.
usage_fitness(d) ==
    LET keys == { <<d.rows[i].Usage, d.rows[i].Product>> : i \in Rows(d) }
    IN  [index |-> keys, columns |-> Values(d, "Fitness"),
         cell |-> [k \in keys \X Values(d, "Fitness") |->
                     Cardinality({ i \in Rows(d) :
                         /\ d.rows[i].Usage = k[1][1]
                         /\ d.rows[i].Product = k[1][2]
                         /\ d.rows[i].Fitness = k[2] })]]

usage_fitness_pct(d) == div_rows_pct(usage_fitness(d))

----------------------------------------------------------------------------
(* Exceptions *)

\* The first exception of a list of steps, "" when none raises.
RECURSIVE FirstErr(_)
FirstErr(es) ==
    IF es = <<>> THEN ""
    ELSE IF Head(es) # "" THEN Head(es) ELSE FirstErr(Tail(es))

\* df[c] raises KeyError for a column the header lacks.
getitem_err(d, c) == IF c \in d.cols THEN "" ELSE "KeyError"

\* pd.crosstab(df['Product'], df[c], ...): only the column lookups can raise.
crosstab_err(d, c) == FirstErr(<<getitem_err(d, "Product"), getitem_err(d, c)>>)

\* df.groupby('Product')[c].agg(['mean', ...]): the lookups, then the mean of
\* an object column raises TypeError.
group_stats_err(d, c) ==
    FirstErr(<<getitem_err(d, "Product"), getitem_err(d, c),
               IF c \in d.object THEN "TypeError" ELSE "">>)

\* table.loc[p, ...] for each of the three products, in the code's order:
\* KeyError for a product with no row.
loc_products_err(index) == IF Products \subseteq index THEN "" ELSE "KeyError"

\* px.bar(data, x='Product', y=[...]): ValueError for a name in y that is not
\* a column of data.
bar_chart_err(columns, ys) == IF ys \subseteq columns THEN "" ELSE "ValueError"

----------------------------------------------------------------------------
(* The cached pipeline *)

\* Variant of compute_statistics: the income summary is left out of the dict.
compute_statistics_no_income(d) ==
    LET e == FirstErr(<<crosstab_err(d, "Gender"),
                        crosstab_err(d, "MaritalStatus"),
                        crosstab_err(d, "Education"),
                        group_stats_err(d, "Usage"),
                        group_stats_err(d, "Miles")>>)
    IN  [err |-> e,
         val |-> IF e # "" THEN None
                 ELSE [gender_dist |-> crosstab_pct(d, "Gender"),
                       marital_dist |-> crosstab_pct(d, "MaritalStatus"),
                       education_dist |-> crosstab_pct(d, "Education"),
                       usage_stats |-> group_stats(d, "Usage"),
                       miles_stats |-> group_stats(d, "Miles")]]

\* The body of compute_statistics: the dict entries are built in this order,
\* and the first step that raises ends the call.
compute_statistics(d) ==
    LET e == FirstErr(<<crosstab_err(d, "Gender"),
                        crosstab_err(d, "MaritalStatus"),
                        crosstab_err(d, "Education"),
                        group_stats_err(d, "Usage"),
                        group_stats_err(d, "Miles"),
                        group_stats_err(d, "Income")>>)
    IN  [err |-> e,
         val |-> IF e # "" THEN None
                 ELSE [gender_dist |-> crosstab_pct(d, "Gender"),
                       marital_dist |-> crosstab_pct(d, "MaritalStatus"),
                       education_dist |-> crosstab_pct(d, "Education"),
                       usage_stats |-> group_stats(d, "Usage"),
                       miles_stats |-> group_stats(d, "Miles"),
                       income_stats |-> group_stats(d, "Income")]]

\* Variant of load_data: the decorator is dropped, every call reads the file.
load_data_uncached(cache, f) ==
    [df |-> read_csv(f), cache |-> <<read_csv(f)>>, reads |-> 1]

\* @st.cache_data load_data(): no argument, so one entry; a hit returns a copy
\* of the stored frame and the body is skipped.
load_data(cache, f) ==
    IF cache # <<>>
    THEN [df |-> cache[1], cache |-> cache, reads |-> 0]
    ELSE [df |-> read_csv(f), cache |-> <<read_csv(f)>>, reads |-> 1]

\* Variant of compute_statistics_cached: an entry is stored before the body
\* has returned, so a call that raised leaves an entry a later call hits.
compute_statistics_cached_early(cache, d) ==
    IF \E e \in cache : e.key = d
    THEN [err |-> "", val |-> (CHOOSE e \in cache : e.key = d).val,
          cache |-> cache]
    ELSE LET r == compute_statistics(d)
         IN  [err |-> r.err, val |-> r.val,
              cache |-> cache \cup {[key |-> d, val |-> r.val]}]

\* @st.cache_data compute_statistics(df): keyed by the content of df; a call
\* that raises stores nothing.
compute_statistics_cached(cache, d) ==
    IF \E e \in cache : e.key = d
    THEN [err |-> "", val |-> (CHOOSE e \in cache : e.key = d).val,
          cache |-> cache]
    ELSE LET r == compute_statistics(d)
         IN  [err |-> r.err, val |-> r.val,
              cache |-> IF r.err # "" THEN cache
                        ELSE cache \cup {[key |-> d, val |-> r.val]}]

----------------------------------------------------------------------------
(* Formatting *)

\* format(num / den, '.<dp>f'): dp decimals, v in units of 10^-dp.
format_frac(num, den, dp) ==
    [nan |-> FALSE, v |-> RoundHalfEven((10 ^ dp) * num, den), dp |-> dp]

\* format(x, '.<dp>f') of a rounded float; NaN prints as 'nan'.
format_num(x, dp) ==
    IF x.nan THEN [nan |-> TRUE, v |-> 0, dp |-> dp]
    ELSE format_frac(x.v, Cent, dp)

\* The Mean / Median / Std Dev table of the three products.
stats_table(t, dpMean, dpStd) ==
    [p \in Products |->
        [mean |-> format_num(t[p].mean, dpMean),
         median |-> format_num(t[p].median, dpMean),
         std |-> format_num(t[p].std, dpStd)]]

----------------------------------------------------------------------------
(* The sidebar and the section bodies.  Each returns the exception it ends  *)
(* with ("" when it completes), what it renders, and df and stats as it     *)
(* leaves them.                                                            *)

Blank == [sidebar |-> None, title |-> "", cards |-> None, footer |-> FALSE]

Completed(title, cards, d, st) ==
    [err |-> "", title |-> title, cards |-> cards, df |-> d, stats |-> st]

Raised(e, title, d, st) ==
    [err |-> e, title |-> title, cards |-> None, df |-> d, stats |-> st]

\* px.<chart>(df, x=.., y=.., color=..): ValueError for a name that is not a
\* column of df.
px_err(d, names) == IF names \subseteq d.cols THEN "" ELSE "ValueError"

\* The data a chart of the records themselves is drawn from (box plot,
\* scatter plot): the plotted columns of every row.
plot_points(d, cols) == [i \in Rows(d) |-> [c \in cols |-> d.rows[i][c]]]

\* Variant of reset_index: reset_index(inplace=True), which rewrites the
\* table held in stats.
reset_index_inplace(st, key) ==
    LET t == [Product |-> st[key].index,
              columns |-> st[key].columns,
              cell |-> st[key].cell]
    IN  [stats |-> [st EXCEPT ![key] = t], out |-> t]

\* stats[key].reset_index(): a new table with the index as column 'Product';
\* the table in stats is left as it is.
reset_index(st, key) ==
    [stats |-> st,
     out |-> [Product |-> st[key].index,
              columns |-> st[key].columns,
              cell |-> st[key].cell]]

\* Series.mean() of a whole column: KeyError without the column, TypeError
\* for an object column.
column_mean_err(d, c) ==
    FirstErr(<<getitem_err(d, c), IF c \in d.object THEN "TypeError" ELSE "">>)

column_sum(d, c) == SeqSum([i \in Rows(d) |-> d.rows[i][c]])

sidebar_metrics(d) ==
    LET e == FirstErr(<<column_mean_err(d, "Age"), column_mean_err(d, "Income")>>)
    IN  [err |-> e,
         val |-> IF e # "" THEN None
                 ELSE [total_customers |-> Len(d.rows),
                       avg_age |-> format_frac(column_sum(d, "Age"),
                                               Len(d.rows) * Milli, 1),
                       avg_income |-> format_frac(column_sum(d, "Income"),
                                                  Len(d.rows) * Milli, 0)]]

product_overview(d, st) ==
    LET title == "Product Overview"
        e == FirstErr(<<getitem_err(d, "Product"),
                        px_err(d, {"Product", "Age"}),
                        px_err(d, {"Product", "Income"})>>)
    IN  IF e # "" THEN Raised(e, title, d, st)
        ELSE Completed(title,
                 [product_dist |->
                     [p \in Values(d, "Product") |->
                         Cardinality({ i \in Rows(d) : d.rows[i].Product = p })],
                  age_box |-> plot_points(d, {"Product", "Age"}),
                  income_box |-> plot_points(d, {"Product", "Income"})],
                 d, st)

customer_segments(d, st) ==
    LET title == "Customer Segments"
        gender == reset_index(st, "gender_dist")
        marital == reset_index(gender.stats, "marital_dist")
        st1 == marital.stats
        e == FirstErr(<<bar_chart_err(gender.out.columns, {"Female", "Male"}),
                        bar_chart_err(marital.out.columns,
                                      {"Single", "Partnered"}),
                        crosstab_err(d, "Fitness"),
                        group_stats_err(d, "Fitness"),
                        loc_products_err(Values(d, "Product"))>>)
        fitness_counts == crosstab_pct(d, "Fitness")
        fitness_stats == group_stats(d, "Fitness")
    IN  IF e # "" THEN Raised(e, title, d, st1)
        ELSE Completed(title,
                 [gender_chart |-> gender.out,
                  marital_chart |-> marital.out,
                  fitness_chart |-> fitness_counts,
                  fitness_table |-> stats_table(fitness_stats, 1, 1),
                  fitness_mean |-> format_num(fitness_stats["KP781"].mean, 1),
                  female_pct |->
                      format_frac(st1.gender_dist.cell[<<"KP481", "Female">>].num,
                                  st1.gender_dist.cell[<<"KP481", "Female">>].den, 1)],
                 d, st1)

target_audience_analysis(d, st) ==
    LET title == "Target Audience Analysis"
        e == FirstErr(<<px_err(d, {"Age", "Income", "Product"}),
                        getitem_err(d, "Product"), getitem_err(d, "Fitness")>>)
        education == reset_index(st, "education_dist")
    IN  IF e # "" THEN Raised(e, title, d, st)
        ELSE Completed(title,
                 [age_income_chart |->
                      plot_points(d, {"Age", "Income", "Product", "Fitness"}),
                  education_chart |-> education.out],
                 d, education.stats)

usage_analysis(d, st) ==
    LET title == "Usage Analysis"
        e == FirstErr(<<getitem_err(d, "Usage"), getitem_err(d, "Product"),
                        getitem_err(d, "Fitness"),
                        loc_products_err(DOMAIN st.usage_stats),
                        px_err(d, {"Usage", "Miles", "Product"}),
                        getitem_err(d, "Product"),
                        loc_products_err(DOMAIN st.miles_stats)>>)
    IN  IF e # "" THEN Raised(e, title, d, st)
        ELSE Completed(title,
                 [usage_fitness_chart |-> usage_fitness_pct(d),
                  usage_table |-> stats_table(st.usage_stats, 1, 1),
                  usage_miles_chart |->
                      plot_points(d, {"Usage", "Miles", "Product"}),
                  miles_table |-> stats_table(st.miles_stats, 0, 1),
                  usage_mean |-> format_num(st.usage_stats["KP781"].mean, 1),
                  miles_mean |-> format_num(st.miles_stats["KP781"].mean, 0)],
                 d, st)

product_prices == [p \in Products |->
    IF p = "KP281" THEN 1500 ELSE IF p = "KP481" THEN 1750 ELSE 2500]

financial_insights(d, st) ==
    LET title == "Financial Insights"
        e == FirstErr(<<loc_products_err(DOMAIN st.income_stats),
                        px_err(d, {"Product", "Income"}),
                        px_err(d, {"Age", "Income", "Product"}),
                        getitem_err(d, "Product"),
                        loc_products_err(DOMAIN market_share(d))>>)
    IN  IF e # "" THEN Raised(e, title, d, st)
        ELSE Completed(title,
                 [income_table |-> stats_table(st.income_stats, 0, 0),
                  income_box |-> plot_points(d, {"Product", "Income"}),
                  age_income_chart |->
                      plot_points(d, {"Age", "Income", "Product"}),
                  price_chart |-> product_prices,
                  market_share |->
                      [p \in Products |->
                          format_frac(market_share(d)[p].num,
                                      market_share(d)[p].den, 1)],
                  income_median |-> format_num(st.income_stats["KP781"].median, 0)],
                 d, st)

\* Variant of recommendations: the body closes with the market share of
\* each product.
recommendations_with_share(d, st) ==
    Completed("Marketing Recommendations",
              [market_share |-> market_share(d)], d, st)

\* The else branch: a title and three literal HTML boxes.
recommendations(d, st) ==
    Completed("Marketing Recommendations", None, d, st)

\* The summary each rendered element is drawn from: an entry of stats, a
\* table the section body computes from df, the records themselves, or the
\* literal price table.
card_reads ==
    [product_dist |-> "product_counts",
     age_box |-> "age_dist",
     income_box |-> "income_dist",
     gender_chart |-> "gender_dist",
     marital_chart |-> "marital_dist",
     fitness_chart |-> "fitness_dist",
     fitness_table |-> "fitness_stats",
     fitness_mean |-> "fitness_stats",
     female_pct |-> "gender_dist",
     age_income_chart |-> "age_income",
     education_chart |-> "education_dist",
     usage_fitness_chart |-> "usage_fitness",
     usage_table |-> "usage_stats",
     usage_mean |-> "usage_stats",
     usage_miles_chart |-> "usage_miles",
     miles_table |-> "miles_stats",
     miles_mean |-> "miles_stats",
     income_table |-> "income_stats",
     income_median |-> "income_stats",
     price_chart |-> "product_prices",
     market_share |-> "market_share"]

\* The summaries a rendered section body has read.
summaries_read(cards) ==
    IF cards = None THEN {} ELSE { card_reads[k] : k \in DOMAIN cards }

\* Variant of render_section: the chain without its Financial Insights
\* branch.
render_section_four(s, d, st) ==
    IF s = "Product Overview" THEN product_overview(d, st)
    ELSE IF s = "Customer Segments" THEN customer_segments(d, st)
    ELSE IF s = "Target Audience Analysis" THEN target_audience_analysis(d, st)
    ELSE IF s = "Usage Analysis" THEN usage_analysis(d, st)
    ELSE recommendations(d, st)

\* The if / elif / else chain over the selected section.
render_section(s, d, st) ==
    IF s = "Product Overview" THEN product_overview(d, st)
    ELSE IF s = "Customer Segments" THEN customer_segments(d, st)
    ELSE IF s = "Target Audience Analysis" THEN target_audience_analysis(d, st)
    ELSE IF s = "Usage Analysis" THEN usage_analysis(d, st)
    ELSE IF s = "Financial Insights" THEN financial_insights(d, st)
    ELSE recommendations(d, st)

----------------------------------------------------------------------------
(* The batch report, src/aerofit_analysis.py *)

\* df.groupby('Product').agg({... 'mean'}).round(2)
demographics(d) ==
    [p \in Values(d, "Product") |->
        [c \in numeric_cols |-> agg_mean(GroupValues(d, p, c))]]

\* pd.crosstab(df['Product'], df['Gender'], normalize='index') * 100
gender_product(d) == crosstab_pct(d, "Gender")

\* Column c of d in whole steps above the lower profile value.  Pearson's
\* coefficient is unchanged by a positive affine map of a column, and the
\* sums of products stay small.
Steps(d, c) ==
    [i \in Rows(d) |->
        (d.rows[i][c] - ProfileSeq[1][c]) \div
            (ProfileSeq[2][c] - ProfileSeq[1][c])]

SeqDot(xs, ys) == SeqSum([i \in DOMAIN xs |-> xs[i] * ys[i]])

\* n * sum(xy) - sum(x) * sum(y): n * (n - 1) times the sample covariance.
Cov(xs, ys) == Len(xs) * SeqDot(xs, ys) - SeqSum(xs) * SeqSum(ys)

\* Variant of corr_entry: DataFrame.cov(), the covariance left undivided by
\* the standard deviations.
cov_entry(d, x, y) ==
    LET xs == Steps(d, x)
        ys == Steps(d, y)
        n == Len(xs)
    IN  IF n < 2 THEN [nan |-> TRUE, num |-> 0, den2 |-> 1]
        ELSE [nan |-> FALSE, num |-> Cov(xs, ys),
              den2 |-> (n * (n - 1)) * (n * (n - 1))]

\* One entry of DataFrame.corr(), Pearson: the coefficient num / sqrt(den2),
\* NaN when there are fewer than two rows or a column has no variance
\* (0 / 0).
corr_entry(d, x, y) ==
    LET xs == Steps(d, x)
        ys == Steps(d, y)
    IN  IF Len(xs) < 2 \/ Cov(xs, xs) * Cov(ys, ys) = 0
        THEN [nan |-> TRUE, num |-> 0, den2 |-> 1]
        ELSE [nan |-> FALSE, num |-> Cov(xs, ys),
              den2 |-> Cov(xs, xs) * Cov(ys, ys)]

\* df[numeric_cols].corr()
correlation(d) ==
    [k \in numeric_cols \X numeric_cols |-> corr_entry(d, k[1], k[2])]

\* The script from read_csv to the correlation matrix; the chi-square
\* p-values and the image files are not represented.
aerofit_analysis(f) ==
    LET d == read_csv(f)
        e == FirstErr(<<group_stats_err(d, "Age"),
                        group_stats_err(d, "Education"),
                        group_stats_err(d, "Income"),
                        group_stats_err(d, "Usage"),
                        group_stats_err(d, "Fitness"),
                        group_stats_err(d, "Miles"),
                        crosstab_err(d, "Gender"),
                        crosstab_err(d, "MaritalStatus")>>)
    IN  [err |-> e,
         val |-> IF e # "" THEN None
                 ELSE [demographics |-> demographics(d),
                       gender_product |-> gender_product(d),
                       gender_table |-> crosstab(d, "Product", "Gender"),
                       marital_table |-> crosstab(d, "Product", "MaritalStatus"),
                       correlation |-> correlation(d)]]

----------------------------------------------------------------------------
(* The plotly theme, configured at module level by every script run *)

COLORS == [card |-> "#1E1E1E", text |-> "#FFFFFF", grid |-> "#2D3748"]

\* pio.templates as plotly ships it: the default template is "plotly", the
\* "plotly_dark" template has the library's colours, "custom_dark" is not
\* registered.
PlotlyTemplates ==
    [default |-> "plotly",
     plotly_dark |-> [paper_bgcolor |-> "plotly_dark",
                      plot_bgcolor |-> "plotly_dark",
                      font_color |-> "plotly_dark",
                      xaxis_gridcolor |-> "plotly_dark",
                      yaxis_gridcolor |-> "plotly_dark"],
     custom_dark |-> None]

\* Variant of customize_template: the theme is switched on by one script run
\* and off again by the next.
customize_template_toggle(t) ==
    IF t.default = "custom_dark"
    THEN [t EXCEPT !.default = "plotly"]
    ELSE [t EXCEPT !.default = "custom_dark", !.custom_dark = t.plotly_dark]

\* template = pio.templates["plotly_dark"] is updated in place, registered
\* as "custom_dark" and made the default.
customize_template(t) ==
    LET template == [paper_bgcolor |-> COLORS.card,
                     plot_bgcolor |-> COLORS.card,
                     font_color |-> COLORS.text,
                     xaxis_gridcolor |-> COLORS.grid,
                     yaxis_gridcolor |-> COLORS.grid]
    IN  [default |-> "custom_dark",
         plotly_dark |-> template,
         custom_dark |-> template]

----------------------------------------------------------------------------
(* The state machine *)

\* The script state of a view that has not run yet.
IdleView ==
    [pc |-> "idle", section |-> sections[1], cycles |-> 0, df |-> None,
     stats |-> None, err |-> "", shown |-> Blank, loadCache |-> <<>>,
     statsCache |-> {}]

Init ==
    /\ file \in { WellFormed(rows) : rows \in RowLists }
    /\ loadCache = <<>>
    /\ statsCache = {}
    /\ df = None
    /\ stats = None
    /\ section = sections[1]
    /\ pc = "idle"
    /\ err = ""
    /\ errAt = ""
    /\ shown = Blank
    /\ reads = 0
    /\ cycles = 0
    /\ session = 1
    /\ report = None
    /\ templates = PlotlyTemplates
    /\ views = [v \in 1..MaxViews |-> IdleView]
    /\ ownCache = FALSE

\* A render cycle starts: the first one when the page is opened, with the
\* selectbox at its first option, a later one when the user picks a section.
Rerun(s) ==
    /\ pc \in {"idle", "done", "crashed"}
    /\ cycles < MaxCycles
    /\ cycles = 0 => s = sections[1]
    /\ section' = s
    /\ cycles' = cycles + 1
    /\ pc' = "load"
    /\ df' = None
    /\ stats' = None
    /\ err' = ""
    /\ errAt' = ""
    /\ shown' = Blank
    /\ templates' = customize_template(templates)
    /\ UNCHANGED <<viewVars, file, loadCache, statsCache, reads, session,
                   report>>

\* df = load_data()
LoadData ==
    /\ pc = "load"
    /\ LET r == load_data(loadCache, file)
       IN  /\ df' = r.df
           /\ loadCache' = r.cache
           /\ reads' = reads + r.reads
    /\ pc' = "compute"
    /\ UNCHANGED <<viewVars, templates,
                   file, statsCache, stats, section, err, errAt, shown,
                   cycles, session, report>>

Crash(e, at) ==
    /\ err' = e
    /\ errAt' = at
    /\ pc' = "crashed"

\* stats = compute_statistics(df)
ComputeStatistics ==
    /\ pc = "compute"
    /\ LET r == compute_statistics_cached(statsCache, df)
       IN  /\ statsCache' = r.cache
           /\ IF r.err # ""
              THEN Crash(r.err, "compute_statistics") /\ UNCHANGED stats
              ELSE /\ stats' = r.val
                   /\ pc' = "sidebar"
                   /\ UNCHANGED <<err, errAt>>
    /\ UNCHANGED <<viewVars, templates,
                   file, loadCache, df, section, shown, reads, cycles,
                   session, report>>

\* The sidebar: the key metrics, then the selectbox.
Sidebar ==
    /\ pc = "sidebar"
    /\ LET r == sidebar_metrics(df)
       IN  IF r.err # ""
           THEN Crash(r.err, "sidebar") /\ UNCHANGED shown
           ELSE /\ shown' = [shown EXCEPT !.sidebar = r.val]
                /\ pc' = "section"
                /\ UNCHANGED <<err, errAt>>
    /\ UNCHANGED <<viewVars, templates,
                   file, loadCache, statsCache, df, stats, section, reads,
                   cycles, session, report>>

\* The body of one branch of the if / elif chain.
RenderBody(r) ==
    /\ pc = "section"
    /\ df' = r.df
    /\ stats' = r.stats
    /\ shown' = [shown EXCEPT !.title = r.title, !.cards = r.cards]
    /\ IF r.err # ""
       THEN Crash(r.err, "section")
       ELSE pc' = "footer" /\ UNCHANGED <<err, errAt>>
    /\ UNCHANGED <<viewVars, templates,
                   file, loadCache, statsCache, section, reads, cycles,
                   session, report>>

ProductOverview ==
    /\ section = "Product Overview"
    /\ RenderBody(product_overview(df, stats))

CustomerSegments ==
    /\ section # "Product Overview"
    /\ section = "Customer Segments"
    /\ RenderBody(customer_segments(df, stats))

TargetAudienceAnalysis ==
    /\ section \notin {"Product Overview", "Customer Segments"}
    /\ section = "Target Audience Analysis"
    /\ RenderBody(target_audience_analysis(df, stats))

UsageAnalysis ==
    /\ section \notin {"Product Overview", "Customer Segments",
                       "Target Audience Analysis"}
    /\ section = "Usage Analysis"
    /\ RenderBody(usage_analysis(df, stats))

FinancialInsights ==
    /\ section \notin {"Product Overview", "Customer Segments",
                       "Target Audience Analysis", "Usage Analysis"}
    /\ section = "Financial Insights"
    /\ RenderBody(financial_insights(df, stats))

\* The else branch.
Recommendations ==
    /\ section \notin {"Product Overview", "Customer Segments",
                       "Target Audience Analysis", "Usage Analysis",
                       "Financial Insights"}
    /\ RenderBody(recommendations(df, stats))

Footer ==
    /\ pc = "footer"
    /\ shown' = [shown EXCEPT !.footer = TRUE]
    /\ pc' = "done"
    /\ UNCHANGED <<viewVars, templates,
                   file, loadCache, statsCache, df, stats, section, err,
                   errAt, reads, cycles, session, report>>

\* Another browser session opens the page: the script's globals, the
\* selectbox and the page are those of the new session, the caches are the
\* process's.
NewSession ==
    /\ pc \in {"done", "crashed"}
    /\ session < MaxSessions
    /\ session' = session + 1
    /\ cycles' = 0
    /\ reads' = 0
    /\ section' = sections[1]
    /\ pc' = "idle"
    /\ df' = None
    /\ stats' = None
    /\ err' = ""
    /\ errAt' = ""
    /\ shown' = Blank
    /\ UNCHANGED <<viewVars, templates,
                   file, loadCache, statsCache, report>>

\* The batch script is a program of its own over the same file; it is run
\* once the dashboard has served its sessions.
AerofitAnalysis ==
    /\ pc \in {"done", "crashed"}
    /\ cycles = MaxCycles
    /\ session = MaxSessions
    /\ report = None
    /\ report' = aerofit_analysis(file)
    /\ UNCHANGED <<viewVars, templates,
                   file, loadCache, statsCache, df, stats, section, pc, err,
                   errAt, shown, reads, cycles, session>>

Next ==
    \/ \E i \in 1..Len(sections) : Rerun(sections[i])
    \/ LoadData
    \/ ComputeStatistics
    \/ Sidebar
    \/ ProductOverview
    \/ CustomerSegments
    \/ TargetAudienceAnalysis
    \/ UsageAnalysis
    \/ FinancialInsights
    \/ Recommendations
    \/ Footer
    \/ NewSession
    \/ AerofitAnalysis

Spec == Init /\ [][Next]_vars

\* Files whose schema may be faulty: a column is missing from the header, or
\* a numeric column holds an unparseable token, or neither.  The rows hold
\* exactly one record of each product.
CompleteRowLists ==
    { rows \in RowLists :
        /\ Len(rows) = Cardinality(Products)
        /\ { rows[i].Product : i \in 1..Len(rows) } = Products }

CsvFiles ==
    { f \in { [cols |-> Columns \ m, bad |-> b, rows |-> rows] :
                m \in {{}} \cup { {c} : c \in Columns },
                b \in {{}} \cup { {c} : c \in numeric_cols },
                rows \in CompleteRowLists } :
        f.cols = Columns \/ f.bad = {} }

InitCsv ==
    /\ file \in CsvFiles
    /\ loadCache = <<>>
    /\ statsCache = {}
    /\ df = None
    /\ stats = None
    /\ section = sections[1]
    /\ pc = "idle"
    /\ err = ""
    /\ errAt = ""
    /\ shown = Blank
    /\ reads = 0
    /\ cycles = 0
    /\ session = 1
    /\ report = None
    /\ templates = PlotlyTemplates
    /\ views = [v \in 1..MaxViews |-> IdleView]
    /\ ownCache = FALSE

SpecCsv == InitCsv /\ [][Next]_vars

----------------------------------------------------------------------------
(* Concurrent views.  Every browser session runs its script in a thread of *)
(* its own; the threads interleave at the accesses to what the process     *)
(* shares: pio.templates and the two cache stores.  A cache access is one  *)
(* step, the store serialising the calls of a cached function.  With       *)
(* ownCache every view has stores of its own, as views served by separate  *)
(* processes have.  The sidebar, the section body and the footer touch     *)
(* nothing shared and are one step.                                        *)

\* The single-session variables, which the views do not use.
sessionVars == <<df, stats, section, pc, err, errAt, shown, reads, cycles,
                 session, report>>

ViewRerun(v, s) ==
    /\ views[v].pc \in {"idle", "done", "crashed"}
    /\ views[v].cycles < MaxCycles
    /\ views[v].cycles = 0 => s = sections[1]
    /\ templates' = customize_template(templates)
    /\ views' = [views EXCEPT ![v] =
                    [@ EXCEPT !.pc = "load", !.section = s,
                              !.cycles = @ + 1, !.df = None, !.stats = None,
                              !.err = "", !.shown = Blank]]
    /\ UNCHANGED <<file, loadCache, statsCache, ownCache, sessionVars>>

\* df = load_data()
ViewLoadData(v) ==
    /\ views[v].pc = "load"
    /\ LET r == load_data(IF ownCache THEN views[v].loadCache ELSE loadCache,
                          file)
       IN  /\ views' = [views EXCEPT ![v] =
                 [@ EXCEPT !.pc = "compute", !.df = r.df,
                           !.loadCache = IF ownCache THEN r.cache ELSE @]]
           /\ loadCache' = IF ownCache THEN loadCache ELSE r.cache
    /\ UNCHANGED <<file, statsCache, ownCache, templates, sessionVars>>

\* stats = compute_statistics(df)
ViewComputeStatistics(v) ==
    /\ views[v].pc = "compute"
    /\ LET r == compute_statistics_cached(
                    IF ownCache THEN views[v].statsCache ELSE statsCache,
                    views[v].df)
       IN  /\ views' = [views EXCEPT ![v] =
                 [@ EXCEPT !.pc = IF r.err # "" THEN "crashed" ELSE "render",
                           !.err = r.err,
                           !.stats = r.val,
                           !.statsCache = IF ownCache THEN r.cache ELSE @]]
           /\ statsCache' = IF ownCache THEN statsCache ELSE r.cache
    /\ UNCHANGED <<file, loadCache, ownCache, templates, sessionVars>>

\* The sidebar, the selected section body and the footer.
ViewRender(v) ==
    /\ views[v].pc = "render"
    /\ LET m == sidebar_metrics(views[v].df)
           r == render_section(views[v].section, views[v].df, views[v].stats)
       IN  views' = [views EXCEPT ![v] =
               IF m.err # ""
               THEN [@ EXCEPT !.pc = "crashed", !.err = m.err]
               ELSE IF r.err # ""
               THEN [@ EXCEPT !.pc = "crashed", !.err = r.err,
                              !.df = r.df, !.stats = r.stats,
                              !.shown = [sidebar |-> m.val, title |-> r.title,
                                         cards |-> r.cards, footer |-> FALSE]]
               ELSE [@ EXCEPT !.pc = "done",
                              !.df = r.df, !.stats = r.stats,
                              !.shown = [sidebar |-> m.val, title |-> r.title,
                                         cards |-> r.cards, footer |-> TRUE]]]
    /\ UNCHANGED <<file, loadCache, statsCache, ownCache, templates,
                   sessionVars>>

NextViews ==
    \E v \in 1..MaxViews :
        \/ \E i \in 1..Len(sections) : ViewRerun(v, sections[i])
        \/ ViewLoadData(v)
        \/ ViewComputeStatistics(v)
        \/ ViewRender(v)

\* The files the views are served from: a record of each product, the
\* first one fixed.
ViewRowLists == { rows \in CompleteRowLists : rows[1] = Customer(1) }

InitViews ==
    /\ file \in { WellFormed(rows) : rows \in ViewRowLists }
    /\ loadCache = <<>>
    /\ statsCache = {}
    /\ df = None
    /\ stats = None
    /\ section = sections[1]
    /\ pc = "idle"
    /\ err = ""
    /\ errAt = ""
    /\ shown = Blank
    /\ reads = 0
    /\ cycles = 0
    /\ session = 1
    /\ report = None
    /\ templates = PlotlyTemplates
    /\ views = [v \in 1..MaxViews |-> IdleView]
    /\ ownCache \in BOOLEAN

SpecViews == InitViews /\ [][NextViews]_vars

----------------------------------------------------------------------------
(* Properties *)

CountP(d, p) == Cardinality({ i \in Rows(d) : d.rows[i].Product = p })
CountPV(d, p, c, v) ==
    Cardinality({ i \in Rows(d) : d.rows[i].Product = p /\ d.rows[i][c] = v })

\* The exact sum of the fractions f[x], x in S.
RECURSIVE FracSum(_, _)
FracSum(f, S) ==
    IF S = {} THEN [num |-> 0, den |-> 1]
    ELSE LET x == CHOOSE y \in S : TRUE
             r == FracSum(f, S \ {x})
         IN  [num |-> f[x].num * r.den + r.num * f[x].den,
              den |-> f[x].den * r.den]

\* Row p of the distribution table t of column c of d: every entry is in
\* [0, 100] and is count(p, v) / count(p) * 100, and the entries sum to 100.
DistRowOk(t, d, c, p) ==
    /\ p \in t.index
    /\ \A v \in t.columns :
          LET e == t.cell[<<p, v>>]
          IN  /\ e.den > 0
              /\ 0 <= e.num
              /\ e.num <= Percent * e.den
              /\ e.num * CountP(d, p) = Percent * CountPV(d, p, c, v) * e.den
    /\ LET sum == FracSum([v \in t.columns |-> t.cell[<<p, v>>]], t.columns)
       IN  sum.num = Percent * sum.den

DistOk(t, d, c) == \A p \in Values(d, "Product") : DistRowOk(t, d, c, p)

\* C1: every row-normalized distribution table (gender_dist, marital_dist,
\* education_dist of compute_statistics, the fitness distribution of the
\* Customer Segments section, gender_product of the batch script) has, for
\* every product with at least one record, a row whose entries are in
\* [0, 100], equal count(P, value) / count(P) * 100 and sum to 100.
C1_RowsSumTo100 ==
    /\ stats # None =>
          /\ DistOk(stats.gender_dist, df, "Gender")
          /\ DistOk(stats.marital_dist, df, "MaritalStatus")
          /\ DistOk(stats.education_dist, df, "Education")
    /\ df # None => DistOk(crosstab_pct(df, "Fitness"), df, "Fitness")
    /\ (shown.title = "Customer Segments" /\ shown.cards # None) =>
          DistOk(shown.cards.fitness_chart, df, "Fitness")
    /\ (report # None /\ report.err = "") =>
          DistOk(report.val.gender_product, read_csv(file), "Gender")

\* A product with records of both genders, beside another product, has its
\* percentages computed, and the cycle that computed them has completed.
C1_Witness ==
    /\ pc = "done"
    /\ stats # None
    /\ Genders \subseteq stats.gender_dist.columns
    /\ \E p \in stats.gender_dist.index :
          /\ stats.gender_dist.cell[<<p, "Female">>].num > 0
          /\ stats.gender_dist.cell[<<p, "Male">>].num > 0
          /\ CountP(df, p) < Len(df.rows)

\* C2: with zero records for one of the three products, computing the
\* summaries and rendering any section completes; no render cycle ends in a
\* lookup failure on the missing product.
C2_MissingProductNeverCrashes ==
    (df # None /\ ~(Products \subseteq Values(df, "Product"))) =>
        ~(pc = "crashed" /\ err = "KeyError")

Faulty(f) == f.cols # Columns \/ f.bad # {}

\* C3: a CSV that lacks a required column or holds an unparseable value in a
\* numeric column fails in the load step: the script never gets past
\* load_data with it, and no later step is the one that raises.
C3_FaultSurfacesAtLoad ==
    Faulty(file) =>
        \/ pc \in {"idle", "load"}
        \/ pc = "crashed" /\ errAt = "load_data"

\* The sections that display a group summary, and the column it is of.
SummaryOf(sec) ==
    IF sec = "Customer Segments" THEN {"Fitness"}
    ELSE IF sec = "Usage Analysis" THEN {"Usage", "Miles"}
    ELSE IF sec = "Financial Insights" THEN {"Income"}
    ELSE {}

\* The group summary of column c as the running cycle holds it.
SummaryTable(c) ==
    IF c = "Usage" THEN stats.usage_stats
    ELSE IF c = "Miles" THEN stats.miles_stats
    ELSE IF c = "Income" THEN stats.income_stats
    ELSE group_stats(df, c)

\* The table of column c in the cards of the rendered section.
ShownTable(c) ==
    IF c = "Usage" THEN shown.cards.usage_table
    ELSE IF c = "Miles" THEN shown.cards.miles_table
    ELSE IF c = "Income" THEN shown.cards.income_table
    ELSE shown.cards.fitness_table

\* A rounded float x (hundredths) equals the column value y (1 / Milli).
EqualsValue(x, y) == ~x.nan /\ x.v * Milli = y * Cent

\* C4: for a product group of exactly one record, the group summary reports
\* mean and median equal to the record's value and an undefined (NaN)
\* standard deviation, and the render of the section that displays the
\* summary completes, showing the undefined value.
C4_SingleRecordGroup ==
    (df # None /\ pc \in {"done", "crashed"}) =>
        \A c \in SummaryOf(section) :
            \A p \in Values(df, "Product") :
                CountP(df, p) = 1 =>
                    /\ pc = "done"
                    /\ EqualsValue(SummaryTable(c)[p].mean,
                                   GroupValues(df, p, c)[1])
                    /\ EqualsValue(SummaryTable(c)[p].median,
                                   GroupValues(df, p, c)[1])
                    /\ SummaryTable(c)[p].std = NaN
                    /\ ShownTable(c)[p].std.nan

\* min(F|P) <= mean <= max(F|P), the mean m in hundredths.
MeanWithin(m, xs) ==
    /\ ~m.nan
    /\ SeqMin(xs) * Cent <= m.v * Milli
    /\ m.v * Milli <= SeqMax(xs) * Cent

\* min(F|P) - 0.005 <= mean <= max(F|P) + 0.005
MeanWithinHalfCent(m, xs) ==
    /\ ~m.nan
    /\ 2 * SeqMin(xs) * Cent - Milli <= 2 * m.v * Milli
    /\ 2 * m.v * Milli <= 2 * SeqMax(xs) * Cent + Milli

\* Every value has at most two decimals.
TwoDecimals(xs) == \A i \in 1..Len(xs) : (xs[i] * Cent) % Milli = 0

\* P(m, xs) for the reported mean m and the values xs of every group summary
\* the dashboard and the batch script hold.
OfEveryMean(P(_, _)) ==
    /\ stats # None =>
          \A p \in Values(df, "Product") :
              /\ P(stats.usage_stats[p].mean, GroupValues(df, p, "Usage"))
              /\ P(stats.miles_stats[p].mean, GroupValues(df, p, "Miles"))
              /\ P(stats.income_stats[p].mean, GroupValues(df, p, "Income"))
    /\ df # None =>
          \A p \in Values(df, "Product") :
              P(group_stats(df, "Fitness")[p].mean, GroupValues(df, p, "Fitness"))
    /\ (report # None /\ report.err = "") =>
          \A p \in Values(read_csv(file), "Product") : \A c \in numeric_cols :
              P(report.val.demographics[p][c], GroupValues(read_csv(file), p, c))

\* C5 as claimed: for every numeric field and every product with a record,
\* the reported mean (rounded to 2 decimals) is within [min, max] of the
\* group, also for values that are not integers.
C5_MeanWithinMinMax == OfEveryMean(MeanWithin)

\* C5 as amended: the reported mean is within 0.005 of [min, max], and
\* within [min, max] when the values of the group have at most two decimals.
C5_MeanWithinRounding ==
    OfEveryMean(LAMBDA m, xs :
        /\ MeanWithinHalfCent(m, xs)
        /\ TwoDecimals(xs) => MeanWithin(m, xs))

\* A group of two different values with a third decimal whose rounded mean
\* is inside [min, max], beside a group whose rounded mean left it.
C5_Witness ==
    /\ stats # None
    /\ \E p \in Values(df, "Product") :
          /\ ~TwoDecimals(GroupValues(df, p, "Miles"))
          /\ SeqMin(GroupValues(df, p, "Miles")) < SeqMax(GroupValues(df, p, "Miles"))
          /\ MeanWithin(stats.miles_stats[p].mean, GroupValues(df, p, "Miles"))
    /\ \E p \in Values(df, "Product") :
          ~MeanWithin(stats.income_stats[p].mean, GroupValues(df, p, "Income"))

\* C6: the market share of each product is count(product) / total * 100,
\* the shares of the products present sum to 100, and Financial Insights
\* shows each share to one decimal.
C6_MarketShare ==
    /\ df # None =>
          LET m == market_share(df)
          IN  /\ DOMAIN m = Values(df, "Product")
              /\ \A p \in DOMAIN m :
                    /\ m[p].den > 0
                    /\ m[p].num * Len(df.rows) = Percent * CountP(df, p) * m[p].den
              /\ FracSum(m, DOMAIN m).num = Percent * FracSum(m, DOMAIN m).den
    /\ (shown.title = "Financial Insights" /\ shown.cards # None) =>
          \A p \in Products :
              shown.cards.market_share[p] =
                  format_frac(Percent * CountP(df, p), Len(df.rows), 1)

\* Financial Insights has shown the market shares.
C6_Witness ==
    /\ pc = "done"
    /\ shown.title = "Financial Insights"
    /\ \A p \in Products : shown.cards.market_share[p].v > 0

\* C8: caching is invisible.  What a cycle holds and renders is what a
\* dashboard without the caches computes from the file in that cycle: the
\* same frame, the same summaries, the same cards, and the same exception
\* where it raises one.
C8_CacheInvisible ==
    LET d0 == read_csv(file)
        r0 == compute_statistics(d0)
    IN  /\ df # None => df = d0
        /\ pc \in {"sidebar", "section", "footer", "done"} =>
              /\ r0.err = ""
              /\ stats = r0.val
        /\ (pc = "crashed" /\ errAt = "compute_statistics") => err = r0.err
        /\ (pc = "crashed" /\ errAt = "sidebar") =>
              r0.err = "" /\ err = sidebar_metrics(d0).err
        /\ (pc = "crashed" /\ errAt = "section") =>
              r0.err = "" /\ err = render_section(section, d0, r0.val).err
        /\ pc \in {"footer", "done"} =>
              /\ render_section(section, d0, r0.val).err = ""
              /\ shown.sidebar = sidebar_metrics(d0).val
              /\ shown.title = render_section(section, d0, r0.val).title
              /\ shown.cards = render_section(section, d0, r0.val).cards

\* A cycle served from both caches has rendered a section that reads the
\* cached summaries.
C8_Witness ==
    /\ pc = "done"
    /\ section = "Usage Analysis"
    /\ reads = 0
    /\ session = 2

\* C9: nothing mutates the record set or the cached summaries.  The file
\* and the cache entries never change, and the frame and the summaries a
\* cycle holds are the cached ones from the step that binds them to the end
\* of the cycle, the section body included.
C9_NoMutation ==
    [][ /\ file' = file
        /\ loadCache # <<>> => loadCache' = loadCache
        /\ statsCache \subseteq statsCache'
        /\ (df # None /\ df' # None) => df' = df
        /\ (stats # None /\ stats' # None) => stats' = stats
        /\ df' # None => df' = loadCache'[1]
        /\ stats' # None => [key |-> df', val |-> stats'] \in statsCache' ]_vars

\* Customer Segments, which resets the index of two cached tables and
\* renames the columns of a local one, has been rendered a second time.
C9_Witness ==
    /\ pc = "done"
    /\ section = "Customer Segments"
    /\ cycles = 2
    /\ session = 2

\* The cycle has run its load step, or an earlier cycle of the session has.
Loaded == cycles > 1 \/ (cycles = 1 /\ pc # "load")

\* C10 as claimed: in a session the CSV is read at most once, the first
\* render cycle of the session executing the body of load_data.
C10_FirstCycleReads == reads = IF Loaded THEN 1 ELSE 0

\* C10 as amended: in a session the CSV is read at most once; it is the
\* first render cycle of the first session the server process serves that
\* executes the body of load_data, and every later cycle, of that session
\* or a later one, reads nothing.
C10_ReadOncePerProcess ==
    /\ reads = IF session = 1 /\ Loaded THEN 1 ELSE 0
    /\ Loaded => loadCache = <<read_csv(file)>>

\* A later session has run its cycles without reading the file.
C10_Witness ==
    /\ session = 2
    /\ cycles = 2
    /\ pc = "done"
    /\ reads = 0

\* The summaries the specification's table lists for each of its sections.
RequiredSummaries ==
    [s \in {"Product Overview", "Customer Segments", "Usage Analysis",
            "Financial Insights", "Recommendations"} |->
        IF s = "Product Overview"
        THEN {"product_counts", "age_dist", "income_dist"}
        ELSE IF s = "Customer Segments"
        THEN {"gender_dist", "marital_dist", "fitness_dist", "fitness_stats"}
        ELSE IF s = "Usage Analysis"
        THEN {"usage_fitness", "usage_stats", "miles_stats"}
        ELSE IF s = "Financial Insights"
        THEN {"income_stats", "market_share", "product_prices"}
        ELSE {}]

\* What the sections read beyond their rows of the table.
UnlistedSummaries ==
    [s \in DOMAIN RequiredSummaries |->
        IF s = "Usage Analysis" THEN {"usage_miles"}
        ELSE IF s = "Financial Insights" THEN {"income_dist", "age_income"}
        ELSE {}]

\* The entries of the dict compute_statistics returns.
CachedSummaries ==
    {"gender_dist", "marital_dist", "education_dist", "usage_stats",
     "miles_stats", "income_stats"}

\* The listed summaries that the selected section takes from stats are in
\* stats from the step after compute_statistics on.
ComputedBeforeRender ==
    (pc \in {"sidebar", "section", "footer", "done"}
        /\ section \in DOMAIN RequiredSummaries) =>
            /\ stats # None
            /\ (RequiredSummaries[section] \cap CachedSummaries) \subseteq
                   DOMAIN stats

\* C11 as claimed: a section of the table that has rendered has read
\* exactly the summaries of its row, and those were computed before.
C11_ReadsExactlyListed ==
    /\ ComputedBeforeRender
    /\ (pc \in {"footer", "done"} /\ section \in DOMAIN RequiredSummaries) =>
          summaries_read(shown.cards) = RequiredSummaries[section]

\* C11 as amended: a section of the table that has rendered has read every
\* summary of its row, computed before; Usage Analysis has also read the
\* usage and miles of the records, Financial Insights the income
\* distribution by product and the age and income of the records, and no
\* section has read anything else.
C11_ReadsListedAndMore ==
    /\ ComputedBeforeRender
    /\ (pc \in {"footer", "done"} /\ section \in DOMAIN RequiredSummaries) =>
          /\ RequiredSummaries[section] \subseteq summaries_read(shown.cards)
          /\ summaries_read(shown.cards) \ RequiredSummaries[section] =
                 UnlistedSummaries[section]

\* Financial Insights has rendered, its income table taken from stats.
C11_Witness ==
    /\ pc = "done"
    /\ section = "Financial Insights"
    /\ shown.cards # None
    /\ "income_stats" \in summaries_read(shown.cards)

\* C12: the Recommendations body takes no computed input.  What it has
\* rendered is the fixed title without any element drawn from a summary,
\* it is what the body renders for every other record set, and what it
\* renders with neither a frame nor stats to read.
C12_RecommendationsStatic ==
    (pc \in {"footer", "done"} /\ section = "Recommendations") =>
        /\ shown.title = "Marketing Recommendations"
        /\ shown.cards = None
        /\ summaries_read(shown.cards) = {}
        /\ \A rows \in RowLists :
              LET r == recommendations(read_csv(WellFormed(rows)), None)
              IN  /\ r.err = ""
                  /\ r.title = shown.title
                  /\ r.cards = shown.cards
        /\ recommendations(None, None).title = shown.title
        /\ recommendations(None, None).cards = shown.cards

\* Recommendations has rendered over a frame of several records.
C12_Witness ==
    /\ pc = "done"
    /\ section = "Recommendations"
    /\ df # None
    /\ Len(df.rows) = MaxRecords
    /\ stats # None

\* What a view running alone holds and renders: the frame and the
\* summaries computed from the file, and the page rendered from them.
ObservesAsAlone(w) ==
    LET d0 == read_csv(file)
        r0 == compute_statistics(d0)
        m0 == sidebar_metrics(d0)
    IN  /\ w.df # None => w.df = d0
        /\ w.pc \in {"render", "done"} =>
              /\ r0.err = ""
              /\ w.stats = r0.val
              /\ templates.default = "custom_dark"
        /\ w.pc = "done" =>
              /\ m0.err = ""
              /\ render_section(w.section, d0, r0.val).err = ""
              /\ w.shown.sidebar = m0.val
              /\ w.shown.title = render_section(w.section, d0, r0.val).title
              /\ w.shown.cards = render_section(w.section, d0, r0.val).cards
              /\ w.shown.footer
        /\ w.pc = "crashed" =>
              w.err = IF r0.err # "" THEN r0.err
                      ELSE IF m0.err # "" THEN m0.err
                      ELSE render_section(w.section, d0, r0.val).err

\* A populated store holds the frame read from the file and the summaries
\* computed from it, and nothing else.
StoresHoldFileData(lc, sc) ==
    /\ lc \in {<<>>, <<read_csv(file)>>}
    /\ sc \subseteq {[key |-> read_csv(file),
                      val |-> compute_statistics(read_csv(file)).val]}

\* No step changes the file, an entry of a populated store, or the theme
\* once it is configured.
NoWriterStep ==
    /\ file' = file
    /\ loadCache # <<>> => loadCache' = loadCache
    /\ statsCache \subseteq statsCache'
    /\ \A v \in 1..MaxViews :
          /\ views[v].loadCache # <<>> =>
                views'[v].loadCache = views[v].loadCache
          /\ views[v].statsCache \subseteq views'[v].statsCache
    /\ templates.default = "custom_dark" => templates' = templates

\* C13: concurrent views, in any interleaving, with one shared cache or a
\* cache each.  Once populated, the shared data is never changed by a
\* step, and every view holds the record set and the summaries, and
\* renders the page, of a view running alone.
C13_ConcurrentViews ==
    /\ [](/\ \A v \in 1..MaxViews : ObservesAsAlone(views[v])
          /\ StoresHoldFileData(loadCache, statsCache)
          /\ \A v \in 1..MaxViews :
                StoresHoldFileData(views[v].loadCache, views[v].statsCache))
    /\ [][NoWriterStep]_vars

\* Two views on one shared cache, one about to render Financial Insights
\* while the other has rendered Usage Analysis.
C13_Witness ==
    /\ ~ownCache
    /\ \E v, w \in 1..MaxViews :
          /\ v # w
          /\ views[v].pc = "done"
          /\ views[v].section = "Usage Analysis"
          /\ views[w].pc = "render"
          /\ views[w].section = "Financial Insights"

\* A coefficient equal to 1.0.
IsOne(r) == ~r.nan /\ r.num > 0 /\ r.num * r.num = r.den2

\* The values of column c of the file are all equal.
Constant(f, c) == Cardinality({ f.rows[i][c] : i \in 1..Len(f.rows) }) = 1

Symmetric(m) ==
    \A x, y \in numeric_cols : m[<<x, y>>] = m[<<y, x>>]

\* C14 as claimed: the correlation matrix of the report is symmetric and
\* its diagonal is 1.0 for each of the six numeric fields, a field of equal
\* values included.
C14_DiagonalOne ==
    (report # None /\ report.err = "") =>
        /\ Symmetric(report.val.correlation)
        /\ \A x \in numeric_cols : IsOne(report.val.correlation[<<x, x>>])

\* C14 as amended: the matrix is symmetric, an undefined entry being
\* undefined on both sides of the diagonal; the diagonal entry of a field
\* is 1.0 when the record set has two records or more and the field takes
\* two values or more, and is undefined (NaN) otherwise.
C14_DiagonalOneOrNaN ==
    (report # None /\ report.err = "") =>
        /\ Symmetric(report.val.correlation)
        /\ \A x \in numeric_cols :
              IF Len(file.rows) >= 2 /\ ~Constant(file, x)
              THEN IsOne(report.val.correlation[<<x, x>>])
              ELSE report.val.correlation[<<x, x>>].nan

\* The report holds the matrix of a record set in which Income varies.
C14_Witness ==
    /\ report # None
    /\ report.err = ""
    /\ Len(file.rows) = MaxRecords
    /\ ~Constant(file, "Income")
    /\ IsOne(report.val.correlation[<<"Income", "Income">>])
    /\ IsOne(report.val.correlation[<<"Income", "Age">>])

\* The reported value m is the multiple of 0.01 nearest to num / den.
NearestCent(m, num, den) ==
    /\ ~m.nan
    /\ 2 * (m.v * den - Cent * num) <= den
    /\ 2 * (Cent * num - m.v * den) <= den

\* The reported value m is the multiple of 0.01 nearest to the sample
\* standard deviation of xs, two values or more.
NearestCentStd(m, xs) ==
    LET n == Len(xs)
        V == n * SeqSumSq(xs) - SeqSum(xs) * SeqSum(xs)
        D == n * (n - 1) * (Milli \div Cent) * (Milli \div Cent)
    IN  /\ ~m.nan
        /\ m.v >= 0
        /\ (2 * m.v + 1) * (2 * m.v + 1) * D >= 4 * V
        /\ m.v > 0 => (2 * m.v - 1) * (2 * m.v - 1) * D <= 4 * V

\* Table t holds, for each product of d and no other, the mean, median and
\* standard deviation of column c rounded to two decimals, the standard
\* deviation of a single record being NaN.
GroupStatsRounded(t, d, c) ==
    /\ DOMAIN t = Values(d, "Product")
    /\ \A p \in Values(d, "Product") :
          LET xs == GroupValues(d, p, c)
              n == Len(xs)
          IN  /\ NearestCent(t[p].mean, SeqSum(xs), n * Milli)
              /\ NearestCent(t[p].median,
                             KthSmallest(xs, (n + 1) \div 2) +
                                 KthSmallest(xs, (n \div 2) + 1),
                             2 * Milli)
              /\ IF n >= 2 THEN NearestCentStd(t[p].std, xs)
                 ELSE t[p].std = NaN

\* C15 as claimed: compute_statistics produces, for each product present,
\* the mean, median and standard deviation of usage, miles, income and
\* fitness, each the nearest multiple of 0.01 to the exact statistic.
C15_FourFieldsRounded ==
    stats # None =>
        /\ {"usage_stats", "miles_stats", "income_stats", "fitness_stats"}
               \subseteq DOMAIN stats
        /\ GroupStatsRounded(stats.usage_stats, df, "Usage")
        /\ GroupStatsRounded(stats.miles_stats, df, "Miles")
        /\ GroupStatsRounded(stats.income_stats, df, "Income")
        /\ GroupStatsRounded(stats.fitness_stats, df, "Fitness")
        /\ \A p \in Values(df, "Product") :
              \A k \in {"usage_stats", "miles_stats", "income_stats",
                        "fitness_stats"} : ~stats[k][p].std.nan

\* C15 as amended: compute_statistics produces the rounded mean, median and
\* standard deviation of usage, miles and income for each product present;
\* the summary of fitness is not among its results, the Customer Segments
\* body computes it from the record set, rounded alike; the standard
\* deviation of a single-record group is NaN.
C15_ThreeFieldsRounded ==
    /\ stats # None =>
          /\ {"usage_stats", "miles_stats", "income_stats"} \subseteq DOMAIN stats
          /\ "fitness_stats" \notin DOMAIN stats
          /\ GroupStatsRounded(stats.usage_stats, df, "Usage")
          /\ GroupStatsRounded(stats.miles_stats, df, "Miles")
          /\ GroupStatsRounded(stats.income_stats, df, "Income")
    /\ df # None => GroupStatsRounded(group_stats(df, "Fitness"), df, "Fitness")
    /\ (pc \in {"footer", "done"} /\ section = "Customer Segments") =>
          shown.cards.fitness_table =
              stats_table(group_stats(df, "Fitness"), 1, 1)

\* The summaries of a product with two records of different income are
\* computed, beside a single-record product.
C15_Witness ==
    /\ stats # None
    /\ \E p, q \in Values(df, "Product") :
          /\ Len(GroupValues(df, p, "Income")) = 2
          /\ SeqMin(GroupValues(df, p, "Income")) <
                 SeqMax(GroupValues(df, p, "Income"))
          /\ ~stats.income_stats[p].std.nan
          /\ stats.income_stats[q].std.nan

\* The title each menu value's own section body opens with.
TitleOf ==
    [s \in { sections[i] : i \in 1..Len(sections) } |->
        IF s = "Recommendations" THEN "Marketing Recommendations" ELSE s]

\* Values the selectbox does not offer.
OtherValues == {"", "Overview", "recommendations"}

\* C16: a render cycle renders one section body, the one of its menu value
\* and no other; a value that is none of the first five gets the
\* Recommendations body; the footer is rendered after the body, in the
\* cycles that complete.
C16_OneSectionPerCycle ==
    /\ section \in DOMAIN TitleOf
    /\ pc \in {"idle", "load", "compute", "sidebar", "section"} =>
          shown.title = "" /\ shown.cards = None
    /\ pc \in {"footer", "done"} =>
          /\ shown.title = TitleOf[section]
          /\ render_section(section, df, stats).title = shown.title
          /\ render_section(section, df, stats).cards = shown.cards
          /\ \A s \in DOMAIN TitleOf \ {section} :
                render_section(s, df, stats).title # shown.title
    /\ pc = "crashed" =>
          IF errAt = "section"
          THEN shown.title = TitleOf[section] /\ shown.cards = None
          ELSE shown.title = "" /\ shown.cards = None
    /\ shown.footer <=> pc = "done"
    /\ stats # None =>
          \A s \in OtherValues \cup {"Recommendations"} :
              /\ render_section(s, df, stats).err = ""
              /\ render_section(s, df, stats).title = "Marketing Recommendations"
              /\ render_section(s, df, stats).cards = None

\* A cycle has completed with the body of Financial Insights and the footer.
C16_Witness ==
    /\ pc = "done"
    /\ section = "Financial Insights"
    /\ shown.title = "Financial Insights"
    /\ shown.cards # None
    /\ shown.footer

\* C17: over a record set with a record of each of the three products, no
\* render cycle ends with an error, whichever section is selected, also
\* when a Gender value or a MaritalStatus value does not occur.
C17_ThreeProductsNeverCrash ==
    (df # None /\ Products \subseteq Values(df, "Product")) => pc # "crashed"

\* The records of d with usage u and product p.
CountUP(d, u, p) ==
    Cardinality({ i \in Rows(d) :
        d.rows[i].Usage = u /\ d.rows[i].Product = p })

\* C18: the usage x fitness table of Usage Analysis has a row for each
\* (Usage, Product) pair that occurs in the record set and for no other, so
\* every row total is at least 1, the normalization divides by no zero, and
\* the percentages of every row sum to 100.
C18_UsageFitnessRows ==
    /\ df # None =>
          LET t == usage_fitness(df)
              pct == usage_fitness_pct(df)
          IN  /\ t.index = { <<df.rows[i].Usage, df.rows[i].Product>> :
                                i \in Rows(df) }
              /\ pct.index = t.index
              /\ \A k \in t.index :
                    /\ row_sum(t)[k] = CountUP(df, k[1], k[2])
                    /\ row_sum(t)[k] >= 1
                    /\ \A f \in pct.columns :
                          /\ pct.cell[<<k, f>>].den = row_sum(t)[k]
                          /\ pct.cell[<<k, f>>].num = Percent * t.cell[<<k, f>>]
                    /\ LET sum == FracSum([f \in pct.columns |->
                                              pct.cell[<<k, f>>]], pct.columns)
                       IN  sum.den > 0 /\ sum.num = Percent * sum.den
    /\ (pc \in {"footer", "done"} /\ section = "Usage Analysis") =>
          shown.cards.usage_fitness_chart = usage_fitness_pct(df)

\* Usage Analysis has rendered the table of a record set in which not every
\* usage value occurs with every product.
C18_Witness ==
    /\ pc = "done"
    /\ section = "Usage Analysis"
    /\ Cardinality(shown.cards.usage_fitness_chart.index) <
           Cardinality(Values(df, "Usage")) * Cardinality(Values(df, "Product"))

====
